---- MODULE Spec2Model ----
(***************************************************************************)
(* picoevents: Event<T...> (a std::list of callbacks with iterator         *)
(* handles and a shared "next callback" cursor), its ScopedDisable,        *)
(* Notifier, ScopedNotifier and ScopedCallbackID, ScopedCallbacksHolder    *)
(* and Value.                                                              *)
(*                                                                         *)
(* A list node is a number 1..MaxNodes, handed out in allocation order and *)
(* never handed out twice; the list of an event is the sequence of its     *)
(* nodes.  An iterator (CallbackID) is a node or the end() of an event.    *)
(* notify() is split at the points where it calls a callback: whatever a   *)
(* callback does is any of the other operations, taken while the           *)
(* activation of notify waits on the stack.                                *)
(*                                                                         *)
(* The operations of Event and ScopedCallbackID say nothing of the objects *)
(* of the other classes; each specification states, action by action,      *)
(* what becomes of those (Quiet: nothing).                                 *)
(***************************************************************************)
EXTENDS Integers, Sequences, FiniteSets

MaxNodes == 3
MaxDepth == 2
MaxGuards == 2
MaxLog == 3

Events == {1, 2}
Callbacks == {"cbA", "cbB"}
Args == {7}
Handles == {1, 2}
Owners == {1, 2}

Nodes == 1..MaxNodes
NoFn == "none"

Values == {7, 8}
ValueEvent == 1

VARIABLES callbacks, fn, enabled, nextCallback, nalloc, hv, owner, stack,
          ub, last, round, tags,
          holder, value, guards, arg, notifier, scoped, note

vars == <<callbacks, fn, enabled, nextCallback, nalloc, hv, owner, stack,
          ub, last, round, tags,
          holder, value, guards, arg, notifier, scoped, note>>

\* _callbacks.end() of event e
End(e) == 0 - e

Range(s) == {s[i] : i \in 1..Len(s)}

IndexOf(s, n) == CHOOSE i \in 1..Len(s) : s[i] = n

\* (a variant of Begin: notify resumes at the cursor an interrupted notify
\* has left)
BeginAtCursor(s, e) ==
  IF nextCallback[e] \in Range(s) THEN nextCallback[e]
  ELSE IF s = <<>> THEN End(e) ELSE Head(s)

\* _callbacks.begin()
Begin(s, e) == IF s = <<>> THEN End(e) ELSE Head(s)

\* (a variant of StdNext: the iterator advanced twice)
StdNextTwice(s, e, c) ==
  IF IndexOf(s, c) + 2 > Len(s) THEN End(e) ELSE s[IndexOf(s, c) + 2]

\* std::next(c) for c an element of s
StdNext(s, e, c) ==
  IF IndexOf(s, c) = Len(s) THEN End(e) ELSE s[IndexOf(s, c) + 1]

\* (a variant of PushFront: push_back used for first = true)
PushFrontAtBack(s, n) == Append(s, n)

PushFront(s, n) == <<n>> \o s

\* (a variant of PushBack: push_front used for first = false)
PushBackAtFront(s, n) == <<n>> \o s

PushBack(s, n) == Append(s, n)

Erase(s, c) == SelectSeq(s, LAMBDA x : x # c)

\* The program's memory as one value, so that operations compose.
Cur == [cb |-> callbacks, fn |-> fn, en |-> enabled, nx |-> nextCallback,
        na |-> nalloc, ub |-> ub]

Commit(H) ==
  /\ callbacks' = H.cb
  /\ fn' = H.fn
  /\ enabled' = H.en
  /\ nextCallback' = H.nx
  /\ nalloc' = H.na
  /\ ub' = H.ub

\* the iterator refers to an element of e's list
Live(H, e, it) == it \in Range(H.cb[e])

\* Event::add: the new node and the memory after it
NewNode(H) == H.na + 1

\* (a variant of DoAdd: the dispatch cursor restarted at the new begin())
DoAddRestarts(H, e, c, first) ==
  [H EXCEPT !.cb[e] = IF first THEN PushFront(@, NewNode(H))
                               ELSE PushBack(@, NewNode(H)),
            !.fn[NewNode(H)] = c,
            !.na = NewNode(H),
            !.nx[e] = IF H.nx[e] = End(e) THEN End(e)
                      ELSE IF first THEN NewNode(H) ELSE Head(H.cb[e])]

DoAdd(H, e, c, first) ==
  [H EXCEPT !.cb[e] = IF first THEN PushFront(@, NewNode(H))
                               ELSE PushBack(@, NewNode(H)),
            !.fn[NewNode(H)] = c,
            !.na = NewNode(H)]

\* (a variant of CursorAfterRemove: the cursor is not advanced)
CursorNotAdvanced(H, e, c) == H.nx[e]

\* Event::remove's test "c == _nextCallback" and the increment
CursorAfterRemove(H, e, c) ==
  IF c = H.nx[e] THEN StdNext(H.cb[e], e, c) ELSE H.nx[e]

\* Event::remove(c).  erase() of an iterator that refers to no element of
\* the list is undefined: the build may leave the list alone or unlink
\* whatever node v now lives at that address.
DoRemove(H, e, c, v) ==
  IF c = End(e) THEN H
  ELSE IF Live(H, e, c)
  THEN [H EXCEPT !.nx[e] = CursorAfterRemove(H, e, c),
                 !.cb[e] = Erase(@, c),
                 !.fn[c] = NoFn]
  ELSE [H EXCEPT !.ub = TRUE,
                 !.cb[e] = Erase(@, v),
                 !.fn = IF v \in Range(H.cb[e]) THEN [@ EXCEPT ![v] = NoFn] ELSE @]

\* (a variant of DoReplace: the element is erased and added again at the back)
DoReplaceReinserts(H, e, id, c, v) ==
  IF Live(H, e, id)
  THEN [H EXCEPT !.cb[e] = Append(Erase(@, id), id), !.fn[id] = c]
  ELSE [H EXCEPT !.ub = TRUE]

\* Event::replace(id, c): "*id = c" with no test; a write through end() or
\* through a freed node is undefined (it may hit the node v at that address).
DoReplace(H, e, id, c, v) ==
  IF Live(H, e, id)
  THEN [H EXCEPT !.fn[id] = c]
  ELSE [H EXCEPT !.ub = TRUE,
                 !.fn = IF v \in Range(H.cb[e]) THEN [@ EXCEPT ![v] = c] ELSE @]

ReplaceResult(H, e, id) == TRUE

\* (a variant of LoopHead: the loop tests _enabled again at each turn)
LoopHeadTestsFlag(H, e, c) ==
  IF c = End(e) \/ ~H.en[e] THEN [H EXCEPT !.nx[e] = End(e)]
  ELSE IF Live(H, e, c) THEN [H EXCEPT !.nx[e] = StdNext(H.cb[e], e, c)]
  ELSE [H EXCEPT !.ub = TRUE]

\* The head of notify's loop with c the iterator to visit: either the loop
\* ends (c == end(): _nextCallback is reset), or _nextCallback is preloaded
\* and *c is called.  Dereferencing an iterator of another list or of a
\* freed node is undefined.
LoopHead(H, e, c) ==
  IF c = End(e) THEN [H EXCEPT !.nx[e] = End(e)]
  ELSE IF Live(H, e, c) THEN [H EXCEPT !.nx[e] = StdNext(H.cb[e], e, c)]
  ELSE [H EXCEPT !.ub = TRUE]

Max(a, b) == IF a > b THEN a ELSE b

\* "_event = event" in ScopedCallbackID::replace: _event is a reference, so
\* this is Event's implicit copy assignment, member by member.  std::list's
\* copy assignment overwrites the elements of the nodes it has, erases the
\* nodes left over and appends nodes for the rest.
AssignedList(H, dst, src) ==
  [i \in 1..Len(H.cb[src]) |->
     IF i <= Len(H.cb[dst]) THEN H.cb[dst][i] ELSE H.na + (i - Len(H.cb[dst]))]

DoAssign(H, dst, src) ==
  IF dst = src THEN H
  ELSE LET new == AssignedList(H, dst, src)
       IN [H EXCEPT
             !.cb[dst] = new,
             !.fn = [x \in Nodes |->
                       IF x \in Range(new) THEN H.fn[H.cb[src][IndexOf(new, x)]]
                       ELSE IF x \in Range(H.cb[dst]) THEN NoFn
                       ELSE H.fn[x]],
             !.na = H.na + Max(0, Len(H.cb[src]) - Len(H.cb[dst])),
             !.en[dst] = H.en[src],
             !.nx[dst] = H.nx[src]]

\* nodes the copy assignment allocates
AssignNeeds(H, dst, src) ==
  IF dst = src THEN 0 ELSE Max(0, Len(H.cb[src]) - Len(H.cb[dst]))

----------------------------------------------------------------------------
\* History kept for stating properties: the operation that made the last
\* step, and the dispatch in progress at the bottom of the stack.

NoRound == [on |-> FALSE, e |-> 0, t |-> 0, start |-> <<>>, log |-> <<>>,
            ops |-> {}, done |-> FALSE]

Op(op, e, it, live, ok, x) ==
  [op |-> op, e |-> e, it |-> it, live |-> live, ok |-> ok, x |-> x]

\* how the elements now in the lists were added: with first = true, and by
\* a ScopedCallbackID
LiveNodes(H) == UNION {Range(H.cb[e]) : e \in Events}

Tagged(H, n, first, own) ==
  [front |-> (tags.front \cup (IF first THEN {n} ELSE {})) \cap LiveNodes(H),
   owned |-> (tags.owned \cup (IF own THEN {n} ELSE {})) \cap LiveNodes(H)]

\* what the callbacks of the dispatch in progress have done to its event
Noted(kinds, e) ==
  IF stack = <<>> THEN NoRound
  ELSE IF e = round.e THEN [round EXCEPT !.ops = @ \cup kinds]
  ELSE round

\* victims of an undefined erase or write: only when c refers to no element
\* (v = 0: none; else a node allocated after c, which may have got c's address)
Victims(H, e, c) ==
  IF c = End(e) \/ Live(H, e, c) THEN {0}
  ELSE {0} \cup {v \in Range(H.cb[e]) : v > c}

\* no Notifier (or ScopedNotifier) constructed yet
NoNotifier == [st |-> "none", e |-> 0, t |-> 0]

\* further history: how the last dispatch was started
NoNote == [via |-> "none", v |-> 0, same |-> FALSE, trail |-> <<>>,
           base |-> [e \in Events |-> TRUE], clean |-> [e \in Events |-> FALSE],
           deep |-> [e \in Events |-> 0], made |-> 0, trigs |-> 0,
           fired |-> 0, tail |-> FALSE, born |-> {}, bornLast |-> {},
           bornEnd |-> {}, prev |-> {}, stale |-> FALSE]

\* the last dispatch was started by k with value v (same: v was the value
\* already stored)
Via(k, v, same) == [note EXCEPT !.via = k, !.v = v, !.same = same]

----------------------------------------------------------------------------
Init ==
  /\ callbacks = [e \in Events |-> <<>>]
  /\ fn = [n \in Nodes |-> NoFn]
  /\ enabled = [e \in Events |-> TRUE]
  /\ nextCallback = [e \in Events |-> End(e)]
  /\ nalloc = 0
  /\ hv = [h \in Handles |-> [ev |-> 1, it |-> End(1)]]
  /\ owner = [o \in Owners |-> [st |-> "none", ev |-> 0, cb |-> 0]]
  /\ stack = <<>>
  /\ ub = FALSE
  /\ last = Op("init", 0, 0, FALSE, FALSE, 0)
  /\ round = NoRound
  /\ tags = [front |-> {}, owned |-> {}]
  /\ holder = [st |-> "alive", ids |-> <<>>]
  /\ value = [st |-> "alive", t |-> 7]
  /\ guards = <<>>
  /\ arg = 7
  /\ notifier = NoNotifier
  /\ scoped = NoNotifier
  /\ note = NoNote

\* h = e.add(c, first)
Add(h, e, c, first) ==
  /\ ~ub
  /\ nalloc < MaxNodes
  /\ Commit(DoAdd(Cur, e, c, first))
  /\ hv' = [hv EXCEPT ![h] = [ev |-> e, it |-> NewNode(Cur)]]
  /\ last' = Op("add", e, NewNode(Cur), FALSE, first, 0)
  /\ round' = Noted({"add"}, e)
  /\ tags' = Tagged(DoAdd(Cur, e, c, first), NewNode(Cur), first, FALSE)
  /\ UNCHANGED <<owner, stack>>

\* e.remove(h), h a handle variable of the client for event e
Remove(h) ==
  /\ ~ub
  /\ LET e == hv[h].ev
         c == hv[h].it
     IN \E v \in Victims(Cur, e, c) :
          /\ Commit(DoRemove(Cur, e, c, v))
          /\ hv' = [hv EXCEPT ![h].it = End(e)]
          /\ tags' = Tagged(DoRemove(Cur, e, c, v), 0, FALSE, FALSE)
          /\ last' = Op("remove", e, c, Live(Cur, e, c), FALSE, 0)
          /\ round' = Noted({IF c = End(e) \/ Live(Cur, e, c)
                               THEN "remove" ELSE "undefined"}, e)
  /\ UNCHANGED <<owner, stack>>

\* e.replace(h, c)
Replace(h, c) ==
  /\ ~ub
  /\ LET e == hv[h].ev
         id == hv[h].it
     IN \E v \in Victims(Cur, e, id) :
          /\ Commit(DoReplace(Cur, e, id, c, v))
          /\ last' = Op("replace", e, id, Live(Cur, e, id),
                        ReplaceResult(Cur, e, id), c)
          /\ round' = Noted(IF Live(Cur, e, id) THEN {} ELSE {"undefined"}, e)
  /\ UNCHANGED <<hv, owner, stack, tags>>

\* CallbackID h2 = h1: a CallbackID is a plain std::list iterator
CopyHandle(h1, h2) ==
  /\ ~ub
  /\ h1 # h2
  /\ hv[h2] # hv[h1]
  /\ hv' = [hv EXCEPT ![h2] = hv[h1]]
  /\ last' = Op("copy", hv[h1].ev, hv[h1].it, FALSE, FALSE, 0)
  /\ round' = Noted({}, 0)
  /\ UNCHANGED <<callbacks, fn, enabled, nextCallback, nalloc, owner, stack, ub, tags>>

\* e.setEnabled(b)
SetEnabled(e, b) ==
  /\ ~ub
  /\ enabled' = [enabled EXCEPT ![e] = b]
  /\ last' = Op("setEnabled", e, 0, FALSE, b, 0)
  /\ round' = Noted({}, e)
  /\ UNCHANGED <<callbacks, fn, nextCallback, nalloc, hv, owner, stack, ub, tags>>

\* (a variant of Gate: no test)
GateOpen(H, e) == TRUE

\* notify's test "if (_enabled)"
Gate(H, e) == H.en[e]

\* one call of a callback, as the history records it
Call(d, n, t) == [d |-> d, n |-> n, t |-> t]

\* e.notify(t), up to its first call of a callback (or to its return, when
\* the event is disabled or has no callback)
Notify(e, t) ==
  /\ ~ub
  /\ Len(stack) < MaxDepth
  /\ LET c == Begin(callbacks[e], e)
         H == IF Gate(Cur, e) THEN LoopHead(Cur, e, c) ELSE Cur
         calls == Gate(Cur, e) /\ c # End(e)
         new == IF stack # <<>> THEN Noted({"notify"}, e)
                ELSE IF ~Gate(Cur, e) THEN NoRound
                ELSE [on |-> TRUE, e |-> e, t |-> t, start |-> callbacks[e],
                      log |-> <<>>, ops |-> {}, done |-> ~calls]
     IN /\ Commit(H)
        /\ stack' = IF calls THEN Append(stack, [e |-> e, c |-> c, t |-> t])
                    ELSE stack
        /\ round' = IF calls
                    THEN [new EXCEPT !.log = Append(@, Call(Len(stack) + 1, c, t))]
                    ELSE new
        /\ last' = Op("notify", e, IF calls THEN c ELSE End(e), FALSE,
                      Gate(Cur, e), 0)
  /\ UNCHANGED <<hv, owner, tags>>

\* (a variant of Return: each notify resumes after the element it called,
\* as with a cursor of its own)
ReturnOwnCursor ==
  /\ ~ub
  /\ stack # <<>>
  /\ LET f == stack[Len(stack)]
         c == IF Live(Cur, f.e, f.c) THEN StdNext(callbacks[f.e], f.e, f.c)
              ELSE nextCallback[f.e]
         H == LoopHead(Cur, f.e, c)
         calls == Live(Cur, f.e, c)
         rest == SubSeq(stack, 1, Len(stack) - 1)
     IN /\ Commit(H)
        /\ stack' = IF calls THEN Append(rest, [f EXCEPT !.c = c]) ELSE rest
        /\ round' = IF calls
                    THEN [round EXCEPT !.log = Append(@, Call(Len(stack), c, f.t))]
                    ELSE [round EXCEPT !.done = (rest = <<>>)]
        /\ last' = Op("return", f.e, c, calls, FALSE, 0)
  /\ UNCHANGED <<hv, owner, tags>>

\* the running callback returns to notify: "c = _nextCallback", the loop
\* test, and either the next call or the end of the loop and of notify
Return ==
  /\ ~ub
  /\ stack # <<>>
  /\ LET f == stack[Len(stack)]
         c == nextCallback[f.e]
         H == LoopHead(Cur, f.e, c)
         calls == Live(Cur, f.e, c)
         rest == SubSeq(stack, 1, Len(stack) - 1)
     IN /\ Commit(H)
        /\ stack' = IF calls THEN Append(rest, [f EXCEPT !.c = c]) ELSE rest
        /\ round' = IF calls
                    THEN [round EXCEPT !.log = Append(@, Call(Len(stack), c, f.t))]
                    ELSE [round EXCEPT !.done = (rest = <<>>)]
        /\ last' = Op("return", f.e, c, calls, FALSE, 0)
  /\ UNCHANGED <<hv, owner, tags>>

\* the running callback throws: the exception leaves "(*c)(t...)" and the
\* activation of notify that made the call, which catches nothing and has
\* nothing to unwind; the caller of that notify gets it
Throw ==
  /\ ~ub
  /\ stack # <<>>
  /\ stack' = SubSeq(stack, 1, Len(stack) - 1)
  /\ last' = Op("throw", stack[Len(stack)].e, stack[Len(stack)].c, FALSE, FALSE, 0)
  /\ round' = [round EXCEPT !.ops = @ \cup {"throw"}, !.done = (Len(stack) = 1)]
  /\ UNCHANGED <<callbacks, fn, enabled, nextCallback, nalloc, hv, owner, ub, tags>>

\* ScopedCallbackID o(e, c, first)
OwnerNew(o, e, c, first) ==
  /\ ~ub
  /\ owner[o].st = "none"
  /\ nalloc < MaxNodes
  /\ Commit(DoAdd(Cur, e, c, first))
  /\ owner' = [owner EXCEPT ![o] = [st |-> "alive", ev |-> e, cb |-> NewNode(Cur)]]
  /\ last' = Op("ownerNew", e, NewNode(Cur), FALSE, first, o)
  /\ round' = Noted({"add"}, e)
  /\ tags' = Tagged(DoAdd(Cur, e, c, first), NewNode(Cur), first, TRUE)
  /\ UNCHANGED <<hv, stack>>

\* (a variant of OwnerMove: the source keeps its handle)
OwnerMoveCopies(src, dst) ==
  /\ ~ub
  /\ owner[src].st = "alive"
  /\ owner[dst].st = "none"
  /\ owner' = [owner EXCEPT ![dst] = owner[src]]
  /\ last' = Op("ownerMove", owner[src].ev, owner[src].cb,
                Live(Cur, owner[src].ev, owner[src].cb), FALSE, dst)
  /\ round' = Noted({}, 0)
  /\ UNCHANGED <<callbacks, fn, enabled, nextCallback, nalloc, hv, stack, ub, tags>>

\* ScopedCallbackID dst(std::move(src))
OwnerMove(src, dst) ==
  /\ ~ub
  /\ owner[src].st = "alive"
  /\ owner[dst].st = "none"
  /\ owner' = [owner EXCEPT ![dst] = owner[src],
                            ![src].cb = End(owner[src].ev)]
  /\ last' = Op("ownerMove", owner[src].ev, owner[src].cb,
                Live(Cur, owner[src].ev, owner[src].cb), FALSE, dst)
  /\ round' = Noted({}, 0)
  /\ UNCHANGED <<callbacks, fn, enabled, nextCallback, nalloc, hv, stack, ub, tags>>

\* ~ScopedCallbackID
OwnerDestroy(o) ==
  /\ ~ub
  /\ owner[o].st = "alive"
  /\ LET e == owner[o].ev
         c == owner[o].cb
     IN \E v \in Victims(Cur, e, c) :
          /\ Commit(DoRemove(Cur, e, c, v))
          /\ owner' = [owner EXCEPT ![o] = [st |-> "dead", ev |-> e, cb |-> End(e)]]
          /\ tags' = Tagged(DoRemove(Cur, e, c, v), 0, FALSE, FALSE)
          /\ last' = Op("ownerDestroy", e, c, Live(Cur, e, c), FALSE, o)
          /\ round' = Noted({IF c = End(e) \/ Live(Cur, e, c)
                               THEN "remove" ELSE "undefined"}, e)
  /\ UNCHANGED <<hv, stack>>

\* o.replace(e2, c, first): remove, "_event = event", add
OwnerReplace(o, e2, c, first) ==
  /\ ~ub
  /\ owner[o].st = "alive"
  /\ LET e == owner[o].ev
         old == owner[o].cb
     IN \E v \in Victims(Cur, e, old) :
          LET H1 == DoRemove(Cur, e, old, v)
              H2 == DoAssign(H1, e, e2)
          IN /\ H1.na + AssignNeeds(H1, e, e2) < MaxNodes
             /\ Commit(DoAdd(H2, e, c, first))
             /\ owner' = [owner EXCEPT ![o].cb = NewNode(H2)]
             /\ tags' = Tagged(DoAdd(H2, e, c, first), NewNode(H2), first, TRUE)
             /\ last' = Op("ownerReplace", e2, old, Live(Cur, e, old), first, o)
             /\ round' = Noted({IF e2 # e THEN "assign"
                                ELSE IF old = End(e) \/ Live(Cur, e, old)
                                THEN "remove" ELSE "undefined", "add"}, e)
  /\ UNCHANGED <<hv, stack>>

----------------------------------------------------------------------------
\* ScopedCallbacksHolder: a vector of owned ScopedCallbackIDs.

\* the frame of the operations of the holder
HolderOnly == UNCHANGED <<value, guards, arg, notifier, scoped>>

\* (a variant of ClearOutcomes: the vector forgets its elements without
\* destroying them)
ClearLeaks(H, own, ids) == {[H |-> H, own |-> own]}

\* _callbacks.clear(), and the vector's destructor: the ScopedCallbackIDs
\* held are destroyed, first to last, and each destructor is Event::remove
\* on its handle.  The result is the set of possible outcomes (one per
\* choice of what an undefined erase hits).
RECURSIVE ClearOutcomes(_, _, _)
ClearOutcomes(H, own, ids) ==
  IF ids = <<>> THEN {[H |-> H, own |-> own]}
  ELSE LET o == Head(ids)
           e == own[o].ev
           c == own[o].cb
       IN UNION { ClearOutcomes(DoRemove(H, e, c, v),
                                [own EXCEPT ![o] = [st |-> "dead", ev |-> e,
                                                    cb |-> End(e)]],
                                Tail(ids)) : v \in Victims(H, e, c) }

\* what a clear() of ids has done to the event of the dispatch in progress
ClearNoted(S, ids) ==
  IF stack # <<>> /\ \E i \in 1..Len(ids) : owner[ids[i]].ev = round.e
  THEN Noted({IF S.H.ub THEN "undefined" ELSE "remove"}, round.e)
  ELSE Noted({}, 0)

\* holder.addCallback(e, c, first); o is the ScopedCallbackID allocated
HolderAdd(o, e, c, first) ==
  /\ holder.st = "alive"
  /\ OwnerNew(o, e, c, first)
  /\ holder' = [holder EXCEPT !.ids = Append(@, o)]
  /\ HolderOnly

\* holder.removeAllCallbacks()
HolderRemoveAll ==
  /\ ~ub
  /\ holder.st = "alive"
  /\ \E S \in ClearOutcomes(Cur, owner, holder.ids) :
       /\ Commit(S.H)
       /\ owner' = S.own
       /\ tags' = Tagged(S.H, 0, FALSE, FALSE)
       /\ round' = ClearNoted(S, holder.ids)
  /\ holder' = [holder EXCEPT !.ids = <<>>]
  /\ last' = Op("removeAll", 0, 0, FALSE, FALSE, Len(holder.ids))
  /\ UNCHANGED <<hv, stack>>
  /\ HolderOnly

\* holder.removeCallback(r), r the pointer addCallback returned for o (or a
\* pointer that is not in the vector: nothing happens)
HolderRemove(o) ==
  /\ holder.st = "alive"
  /\ IF o \in Range(holder.ids)
     THEN /\ OwnerDestroy(o)
          /\ holder' = [holder EXCEPT !.ids = SelectSeq(@, LAMBDA x : x # o)]
     ELSE /\ ~ub
          /\ last' = Op("removeCallback", 0, 0, FALSE, FALSE, o)
          /\ round' = Noted({}, 0)
          /\ UNCHANGED <<callbacks, fn, enabled, nextCallback, nalloc, hv,
                         owner, stack, ub, tags, holder>>
  /\ HolderOnly

\* ~ScopedCallbacksHolder: the vector member is destroyed
HolderDestroy ==
  /\ ~ub
  /\ holder.st = "alive"
  /\ \E S \in ClearOutcomes(Cur, owner, holder.ids) :
       /\ Commit(S.H)
       /\ owner' = S.own
       /\ tags' = Tagged(S.H, 0, FALSE, FALSE)
       /\ round' = ClearNoted(S, holder.ids)
  /\ holder' = [st |-> "dead", ids |-> <<>>]
  /\ last' = Op("holderDestroy", 0, 0, FALSE, FALSE, Len(holder.ids))
  /\ UNCHANGED <<hv, stack>>
  /\ HolderOnly

----------------------------------------------------------------------------
\* Value<T>: a ScopedCallbacksHolder (holder) with a stored value _t and an
\* Event _e (the event ValueEvent).

\* ~Event: the list member is destroyed with its nodes
DestroyEvent(H, e) ==
  [H EXCEPT !.cb[e] = <<>>,
            !.fn = [n \in Nodes |-> IF n \in Range(H.cb[e]) THEN NoFn ELSE H.fn[n]],
            !.nx[e] = End(e)]

\* (a variant of ValueDtor: no removeAllCallbacks() in the destructor's body)
ValueDtorNoBody == <<"_e", "ScopedCallbacksHolder">>

\* the order of ~Value: the destructor's body (removeAllCallbacks), then the
\* members in reverse order of declaration (_e, then _t, which holds no
\* subscription), then the base class ScopedCallbacksHolder (its vector)
ValueDtor == <<"removeAllCallbacks", "_e", "ScopedCallbacksHolder">>

\* the removes a clear() of ids performs, as the history records them
Removes(own, ids) ==
  [i \in 1..Len(ids) |-> [k |-> "remove", e |-> own[ids[i]].ev, n |-> own[ids[i]].cb]]

\* The outcomes of running the phases of the destructor from S (H: memory,
\* own: the ScopedCallbackIDs, ids: the vector, gone: _e is destroyed,
\* trail: history).  A remove on the destroyed _e is undefined.
RECURSIVE DtorOutcomes(_, _)
DtorOutcomes(S, phases) ==
  IF phases = <<>> THEN {S}
  ELSE IF Head(phases) = "_e"
  THEN DtorOutcomes([S EXCEPT !.H = DestroyEvent(S.H, ValueEvent),
                              !.gone = TRUE,
                              !.trail = Append(@, [k |-> "~Event", e |-> ValueEvent,
                                                   n |-> 0])],
                    Tail(phases))
  ELSE UNION { DtorOutcomes(
                 [S EXCEPT !.H = [R.H EXCEPT !.ub = @ \/
                                    (S.gone /\ \E i \in 1..Len(S.ids) :
                                                 S.own[S.ids[i]].ev = ValueEvent)],
                           !.own = R.own,
                           !.ids = <<>>,
                           !.trail = @ \o Removes(S.own, S.ids)],
                 Tail(phases)) : R \in ClearOutcomes(S.H, S.own, S.ids) }

\* the frame of the operations of the Value
ValueOnly == UNCHANGED <<guards, arg, notifier, scoped>>

\* value.addListener(c, first)
ValueAddListener(o, c, first) ==
  /\ value.st = "alive"
  /\ HolderAdd(o, ValueEvent, c, first)

\* (a variant of ValueSet: an equal value is not dispatched)
ValueSetDedup(v) ==
  /\ value.st = "alive"
  /\ IF v = value.t
     THEN /\ ~ub
          /\ last' = Op("notify", ValueEvent, End(ValueEvent), FALSE, FALSE, 0)
          /\ round' = Noted({}, 0)
          /\ UNCHANGED <<callbacks, fn, enabled, nextCallback, nalloc, hv,
                         owner, stack, ub, tags, value>>
     ELSE /\ value' = [value EXCEPT !.t = v]
          /\ Notify(ValueEvent, value'.t)
  /\ UNCHANGED holder
  /\ ValueOnly

\* value.set(v): "_t = t; notify();"
ValueSet(v) ==
  /\ value.st = "alive"
  /\ value' = [value EXCEPT !.t = v]
  /\ Notify(ValueEvent, value'.t)
  /\ UNCHANGED holder
  /\ ValueOnly

\* value.notify(): "_e.notify(_t)"
ValueNotify ==
  /\ value.st = "alive"
  /\ Notify(ValueEvent, value.t)
  /\ UNCHANGED <<holder, value>>
  /\ ValueOnly

\* value.get()
ValueGet ==
  /\ ~ub
  /\ value.st = "alive"
  /\ last' = Op("get", ValueEvent, 0, FALSE, FALSE, value.t)
  /\ round' = Noted({}, 0)
  /\ UNCHANGED <<callbacks, fn, enabled, nextCallback, nalloc, hv, owner,
                 stack, ub, tags, holder, value>>
  /\ ValueOnly

\* ~Value, with the history of its steps in D.trail
ValueDestroy(D) ==
  /\ ~ub
  /\ value.st = "alive"
  /\ holder.st = "alive"
  /\ D \in DtorOutcomes([H |-> Cur, own |-> owner, ids |-> holder.ids,
                         gone |-> FALSE, trail |-> <<>>], ValueDtor)
  /\ Commit(D.H)
  /\ owner' = D.own
  /\ holder' = [st |-> "dead", ids |-> <<>>]
  /\ value' = [value EXCEPT !.st = "dead"]
  /\ tags' = Tagged(D.H, 0, FALSE, FALSE)
  /\ last' = Op("valueDestroy", ValueEvent, 0, FALSE, FALSE, Len(holder.ids))
  /\ round' = Noted({}, 0)
  /\ UNCHANGED <<hv, stack>>
  /\ ValueOnly

----------------------------------------------------------------------------
\* Event::ScopedDisable.  The guards alive are kept in the order of their
\* construction and destroyed last first, as objects of nested scopes are.

\* the frame of the operations of the guards
GuardOnly == UNCHANGED <<holder, value, arg, notifier, scoped>>

\* ScopedDisable g(e): "_prev(_e.isEnabled())", "_e.setEnabled(false)"
GuardNew(e) ==
  /\ Len(guards) < MaxGuards
  /\ SetEnabled(e, FALSE)
  /\ guards' = Append(guards, [e |-> e, prev |-> enabled[e]])
  /\ GuardOnly

\* (a variant of GuardDestroy: the event is enabled, whatever it was)
GuardDestroyEnables ==
  /\ guards # <<>>
  /\ SetEnabled(guards[Len(guards)].e, TRUE)
  /\ guards' = SubSeq(guards, 1, Len(guards) - 1)
  /\ GuardOnly

\* ~ScopedDisable of the guard constructed last: "_e.setEnabled(_prev)"
GuardDestroy ==
  /\ guards # <<>>
  /\ SetEnabled(guards[Len(guards)].e, guards[Len(guards)].prev)
  /\ guards' = SubSeq(guards, 1, Len(guards) - 1)
  /\ GuardOnly

----------------------------------------------------------------------------
\* Event::Notifier and Event::ScopedNotifier.  arg is the variable of the
\* client that makeNotifier is given; notifier is the client's Notifier and
\* scoped its ScopedNotifier (neither can be assigned to: Notifier has a
\* reference member).

\* the frame of the operations of the notifiers
NotifierOnly == UNCHANGED <<holder, value, guards>>

\* arg = v
MutateArg(v) ==
  /\ ~ub
  /\ v # arg
  /\ arg' = v
  /\ last' = Op("assign", 0, 0, FALSE, FALSE, v)
  /\ round' = Noted({}, 0)
  /\ UNCHANGED <<callbacks, fn, enabled, nextCallback, nalloc, hv, owner,
                 stack, ub, tags, notifier, scoped>>
  /\ NotifierOnly

\* auto notifier = e.makeNotifier(arg): "_t(std::tuple<T...>(t...))" copies
\* the arguments into a tuple of values
MakeNotifier(e) ==
  /\ ~ub
  /\ notifier.st = "none"
  /\ notifier' = [st |-> "made", e |-> e, t |-> arg]
  /\ last' = Op("makeNotifier", e, 0, FALSE, FALSE, arg)
  /\ round' = Noted({}, 0)
  /\ UNCHANGED <<callbacks, fn, enabled, nextCallback, nalloc, hv, owner,
                 stack, ub, tags, arg, scoped>>
  /\ NotifierOnly

\* (a variant of Trigger: the notifier refers to the variable)
TriggerReadsArg ==
  /\ notifier.st = "made"
  /\ Notify(notifier.e, arg)
  /\ UNCHANGED <<arg, notifier, scoped>>
  /\ NotifierOnly

\* notifier.trigger(): "_e.notify(args...)" with the members of _t
Trigger ==
  /\ notifier.st = "made"
  /\ Notify(notifier.e, notifier.t)
  /\ UNCHANGED <<arg, notifier, scoped>>
  /\ NotifierOnly

\* (a variant of ScopedNotifierNew: the constructor triggers as well)
ScopedNotifierNewTriggers ==
  /\ notifier.st = "made"
  /\ scoped.st = "none"
  /\ scoped' = [notifier EXCEPT !.st = "alive"]
  /\ Notify(notifier.e, notifier.t)
  /\ UNCHANGED <<arg, notifier>>
  /\ NotifierOnly

\* ScopedNotifier scoped(notifier): "_n(n)" copies the Notifier
ScopedNotifierNew ==
  /\ ~ub
  /\ notifier.st = "made"
  /\ scoped.st = "none"
  /\ scoped' = [notifier EXCEPT !.st = "alive"]
  /\ last' = Op("scopedNew", notifier.e, 0, FALSE, FALSE, notifier.t)
  /\ round' = Noted({}, 0)
  /\ UNCHANGED <<callbacks, fn, enabled, nextCallback, nalloc, hv, owner,
                 stack, ub, tags, arg, notifier>>
  /\ NotifierOnly

\* ~ScopedNotifier: "_n.trigger()"
ScopedNotifierDestroy ==
  /\ scoped.st = "alive"
  /\ Notify(scoped.e, scoped.t)
  /\ scoped' = [scoped EXCEPT !.st = "dead"]
  /\ UNCHANGED <<arg, notifier>>
  /\ NotifierOnly

\* the registry, the Value, the guards and the notifiers are not in use
Quiet == UNCHANGED <<holder, value, guards, arg, notifier, scoped, note>>

\* A client of one event that keeps the handles add returns, and whose
\* callbacks add, remove, replace and enable but do not notify again.
Next ==
  \/ \E h \in Handles, c \in Callbacks, first \in BOOLEAN : Add(h, 1, c, first) /\ Quiet
  \/ \E h \in Handles : Remove(h) /\ Quiet
  \/ \E h \in Handles, c \in Callbacks : Replace(h, c) /\ Quiet
  \/ \E b \in BOOLEAN : SetEnabled(1, b) /\ Quiet
  \/ \E t \in Args : stack = <<>> /\ Notify(1, t) /\ Quiet
  \/ Return /\ Quiet

Spec == Init /\ [][Next]_vars

\* A client of one event that also copies its handles, so that a handle can
\* outlive the subscription it was returned for.
NextStale ==
  \/ \E h \in Handles, c \in Callbacks, first \in BOOLEAN : Add(h, 1, c, first) /\ Quiet
  \/ \E h \in Handles : Remove(h) /\ Quiet
  \/ \E h \in Handles, c \in Callbacks : Replace(h, c) /\ Quiet
  \/ \E h1, h2 \in Handles : CopyHandle(h1, h2) /\ Quiet

SpecStale == Init /\ [][NextStale]_vars

\* Clients of two events that hold subscriptions in ScopedCallbackIDs and
\* re-target them with ScopedCallbackID::replace.
NextOwner ==
  \/ \E h \in Handles, e \in Events, c \in Callbacks, first \in BOOLEAN :
       Add(h, e, c, first) /\ Quiet
  \/ \E e \in Events, b \in BOOLEAN : SetEnabled(e, b) /\ Quiet
  \/ \E o \in Owners, e \in Events, c \in Callbacks, first \in BOOLEAN :
       OwnerNew(o, e, c, first) /\ Quiet
  \/ \E o \in Owners : OwnerDestroy(o) /\ Quiet
  \/ \E o \in Owners, e \in Events, c \in Callbacks, first \in BOOLEAN :
       OwnerReplace(o, e, c, first) /\ Quiet

SpecOwner == Init /\ [][NextOwner]_vars

\* Clients that construct, move and destroy ScopedCallbackIDs, beside plain
\* subscriptions (which callback is subscribed plays no part here).
NextMove ==
  \/ \E h \in Handles, e \in Events, first \in BOOLEAN :
       Add(h, e, "cbA", first) /\ Quiet
  \/ \E h \in Handles : Remove(h) /\ Quiet
  \/ \E o \in Owners, e \in Events, first \in BOOLEAN :
       OwnerNew(o, e, "cbA", first) /\ Quiet
  \/ \E src, dst \in Owners : OwnerMove(src, dst) /\ Quiet
  \/ \E o \in Owners : OwnerDestroy(o) /\ Quiet

SpecMove == Init /\ [][NextMove]_vars

\* the history of the later sections is not kept
Plain == UNCHANGED note

\* A client with one ScopedCallbacksHolder that subscribes through it to two
\* events, beside one plain subscription, and notifies.
NextHolder ==
  \/ \E e \in Events, first \in BOOLEAN : Add(1, e, "cbA", first) /\ Quiet
  \/ \E o \in Owners, e \in Events, first \in BOOLEAN :
       HolderAdd(o, e, "cbA", first) /\ Plain
  \/ HolderRemoveAll /\ Plain
  \/ \E o \in Owners : HolderRemove(o) /\ Plain
  \/ HolderDestroy /\ Plain
  \/ \E e \in Events, t \in Args : stack = <<>> /\ Notify(e, t) /\ Quiet
  \/ Return /\ Quiet

SpecHolder == Init /\ [][NextHolder]_vars

\* the outcomes of ~Value in the present state
DtorNow ==
  DtorOutcomes([H |-> Cur, own |-> owner, ids |-> holder.ids, gone |-> FALSE,
                trail |-> <<>>], ValueDtor)

\* Clients of one Value: listeners added through it, subscriptions of its
\* holder to another event, one plain subscription to its event; set, get
\* and notify outside of callbacks; and its destruction, after which its
\* event is not used.
NextValue ==
  \/ \E first \in BOOLEAN :
       value.st = "alive" /\ Add(1, ValueEvent, "cbA", first) /\ Quiet
  \/ \E o \in Owners, first \in BOOLEAN :
       ValueAddListener(o, "cbA", first) /\ Plain
  \/ \E o \in Owners, first \in BOOLEAN :
       HolderAdd(o, 2, "cbA", first) /\ Plain
  \/ \E v \in Values :
       stack = <<>> /\ ValueSet(v) /\ note' = Via("set", v, v = value.t)
  \/ stack = <<>> /\ ValueNotify /\ note' = Via("notify", value.t, FALSE)
  \/ ValueGet /\ Plain
  \/ \E b \in BOOLEAN : value.st = "alive" /\ SetEnabled(ValueEvent, b) /\ Quiet
  \/ \E D \in DtorNow :
       stack = <<>> /\ ValueDestroy(D) /\ note' = [note EXCEPT !.trail = D.trail]
  \/ value.st = "alive" /\ Return /\ Quiet

SpecValue == Init /\ [][NextValue]_vars

\* the guards alive on event e
GuardsOn(e) == SelectSeq(guards, LAMBDA g : g.e = e)

\* history of the guards of e: the flag as it was before the outermost live
\* guard was constructed, whether setEnabled was called since, and how many
\* guards were alive at once since
Guarded(e) ==
  IF GuardsOn(e) = <<>>
  THEN [note EXCEPT !.base[e] = enabled[e], !.clean[e] = TRUE, !.deep[e] = 1]
  ELSE [note EXCEPT !.deep[e] = Max(@, Len(GuardsOn(e)) + 1)]

Touched(e) ==
  IF GuardsOn(e) = <<>> THEN note ELSE [note EXCEPT !.clean[e] = FALSE]

\* Clients of two events that disable them with nested guards, and the
\* first one with setEnabled too, also from the callbacks of a dispatch of
\* the first event.
NextGuard ==
  \/ \E first \in BOOLEAN : Add(1, 1, "cbA", first) /\ Quiet
  \/ \E b \in BOOLEAN :
       SetEnabled(1, b) /\ UNCHANGED guards /\ GuardOnly /\ note' = Touched(1)
  \/ \E e \in Events : GuardNew(e) /\ note' = Guarded(e)
  \/ GuardDestroy /\ Plain
  \/ \E t \in Args : stack = <<>> /\ Notify(1, t) /\ Quiet
  \/ Return /\ Quiet

SpecGuard == Init /\ [][NextGuard]_vars

\* history of the notifiers: the value of arg when makeNotifier was called,
\* and the number of notify calls made by trigger() so far (2: two or more)
\* and by the ScopedNotifier
Made == [note EXCEPT !.made = arg]

Triggered ==
  [Via("trigger", notifier.t, FALSE) EXCEPT !.trigs = IF @ = 0 THEN 1 ELSE 2]

Fired == [Via("scoped", scoped.t, FALSE) EXCEPT !.fired = @ + 1]

\* A client of one event with a variable, a Notifier made from it and a
\* ScopedNotifier made from the Notifier, that assigns to the variable at
\* any moment, triggers outside of callbacks, and lets the ScopedNotifier go
\* out of scope inside or outside of a callback.
NextNotifier ==
  \/ \E first \in BOOLEAN : Add(1, 1, "cbA", first) /\ Quiet
  \/ \E b \in BOOLEAN : SetEnabled(1, b) /\ Quiet
  \/ \E v \in Values : MutateArg(v) /\ Plain
  \/ MakeNotifier(1) /\ note' = Made
  \/ stack = <<>> /\ Trigger /\ note' = Triggered
  \/ ScopedNotifierNew /\ Plain
  \/ ScopedNotifierDestroy /\ note' = Fired
  \/ Return /\ Quiet

SpecNotifier == Init /\ [][NextNotifier]_vars

\* A client of one enabled event whose callbacks add, remove and call
\* notify on the event again (a callback starts a notify only while fewer
\* than MaxLog calls were made since the outermost notify started).
NextNested ==
  \/ \E first \in BOOLEAN : Add(1, 1, "cbA", first) /\ Quiet
  \/ Remove(1) /\ Quiet
  \/ \E t \in Args :
       (stack # <<>> => Len(round.log) < MaxLog) /\ Notify(1, t) /\ Quiet
  \/ Return /\ Quiet

SpecNested == Init /\ [][NextNested]_vars

\* history of the subscriptions added by callbacks: whether the callback
\* now running at depth 1 was the last element of the list when it was
\* called (tail); the elements added by callbacks in this dispatch (born),
\* those of them added by a callback that was the last element when it was
\* called (bornLast), those added while the cursor was end() (bornEnd); and
\* the elements added by callbacks of the dispatch before (prev)
CalledIsLast ==
  /\ stack' # <<>>
  /\ stack'[1].c = callbacks'[stack'[1].e][Len(callbacks'[stack'[1].e])]

Started ==
  [note EXCEPT !.tail = CalledIsLast, !.born = {}, !.bornLast = {},
               !.bornEnd = {}, !.prev = note.born]

Resumed == [note EXCEPT !.tail = CalledIsLast]

Born(e) ==
  IF stack = <<>> THEN note
  ELSE [note EXCEPT !.born = @ \cup {NewNode(Cur)},
                    !.bornLast = @ \cup (IF note.tail THEN {NewNode(Cur)} ELSE {}),
                    !.bornEnd = @ \cup (IF nextCallback[e] = End(e)
                                          THEN {NewNode(Cur)} ELSE {})]

\* A client of one event whose callbacks add and remove subscriptions, and
\* do not notify.
NextAdd ==
  \/ \E h \in Handles, first \in BOOLEAN :
       Add(h, 1, "cbA", first) /\ UNCHANGED <<holder, value, guards, arg,
                                              notifier, scoped>>
                               /\ note' = Born(1)
  \/ \E h \in Handles : Remove(h) /\ Quiet
  \/ \E t \in Args :
       stack = <<>> /\ Notify(1, t) /\ UNCHANGED <<holder, value, guards, arg,
                                                   notifier, scoped>>
                    /\ note' = Started
  \/ Return /\ UNCHANGED <<holder, value, guards, arg, notifier, scoped>>
            /\ note' = Resumed

SpecAdd == Init /\ [][NextAdd]_vars

\* history: the cursor was not end() when the outermost notify started
Entered == [note EXCEPT !.stale = (nextCallback[1] # End(1))]

\* A client of one event whose callbacks add, remove, and throw.
NextThrow ==
  \/ \E h \in Handles, first \in BOOLEAN : Add(h, 1, "cbA", first) /\ Quiet
  \/ \E h \in Handles : Remove(h) /\ Quiet
  \/ \E t \in Args :
       stack = <<>> /\ Notify(1, t) /\ UNCHANGED <<holder, value, guards, arg,
                                                   notifier, scoped>>
                    /\ note' = Entered
  \/ Return /\ Quiet
  \/ Throw /\ Quiet

SpecThrow == Init /\ [][NextThrow]_vars








----------------------------------------------------------------------------
\* Properties of Event.

RECURSIVE SortAsc(_)
SortAsc(S) ==
  IF S = {} THEN <<>>
  ELSE LET m == CHOOSE x \in S : \A y \in S : x <= y
       IN <<m>> \o SortAsc(S \ {m})

RECURSIVE SortDesc(_)
SortDesc(S) ==
  IF S = {} THEN <<>>
  ELSE LET m == CHOOSE x \in S : \A y \in S : x >= y
       IN <<m>> \o SortDesc(S \ {m})

LogNodes == [i \in 1..Len(round.log) |-> round.log[i].n]

NoDup(s) == Cardinality(Range(s)) = Len(s)

\* sub holds elements of s, once each, in the order they have in s
InOrderOf(sub, s) ==
  NoDup(sub) /\ sub = SelectSeq(s, LAMBDA x : x \in Range(sub))

\* the part of list s from iterator c on
From(s, e, c) == IF c = End(e) THEN <<>> ELSE SubSeq(s, IndexOf(s, c), Len(s))

\* the calls a dispatch of list s with argument t makes when no callback
\* touches the event
CallsOf(s, t) == [i \in 1..Len(s) |-> [d |-> 1, n |-> s[i], t |-> t]]

\* the cursor of e is end() or an element of e's list
CursorValid(e) ==
  nextCallback[e] = End(e) \/ nextCallback[e] \in Range(callbacks[e])

\* C1: the list of an event is, at all times, the callbacks added with
\* first = true, the most recently added first, followed by the callbacks
\* added with first = false in the order they were added; and a notify whose
\* callbacks leave the event alone calls exactly the elements of the list,
\* in list order, each with notify's argument.
C1_NotifyOrder ==
  /\ \A e \in Events :
       callbacks[e] = SortDesc(Range(callbacks[e]) \cap tags.front)
                        \o SortAsc(Range(callbacks[e]) \ tags.front)
  /\ (round.on /\ round.done /\ round.ops = {})
       => /\ ~ub
          /\ callbacks[round.e] = round.start
          /\ round.log = CallsOf(round.start, round.t)

\* add(cbA), add(cbB, true), notify(7) has called cbB(7) then cbA(7)
C1_Witness ==
  /\ round.on /\ round.done /\ round.ops = {}
  /\ tags.front = {2}
  /\ fn[1] = "cbA" /\ fn[2] = "cbB"
  /\ round.log = << [d |-> 1, n |-> 2, t |-> 7], [d |-> 1, n |-> 1, t |-> 7] >>

\* a dispatch in which the callbacks did nothing to the list of the event
\* but remove elements through handles that were end() or live
RemovesOnly == round.on /\ round.ops \subseteq {"remove"}

\* C2: in a non-nested notify whose callbacks remove handles of the event,
\* nothing undefined happens, the cursor is end() or an element of the list,
\* no element of the list is a destroyed one, and each call is made on an
\* element that is in the list at that moment.
C2_CursorNeverRemoved ==
  RemovesOnly =>
    /\ ~ub
    /\ CursorValid(round.e)
    /\ \A n \in Range(callbacks[round.e]) : fn[n] # NoFn
    /\ (last.op \in {"notify", "return"} /\ last.it # End(round.e))
         => last.it \in Range(callbacks[round.e])

\* a callback removed the element the cursor was on, then a second one, and
\* the dispatch went on
C2_Witness ==
  /\ RemovesOnly /\ "remove" \in round.ops
  /\ Len(round.start) = 3 /\ Len(callbacks[round.e]) = 1
  /\ round.done /\ Len(round.log) = 1

\* C3: in a non-nested notify whose callbacks only remove, the callbacks
\* called are elements of the list as it was at the start, once each and in
\* that order, with notify's argument; while it runs, what is left to call
\* is exactly the not yet called elements still in the list (a removed one
\* is skipped); when it is over, every element still in the list was called.
C3_RemoveDuringNotify ==
  RemovesOnly =>
    /\ InOrderOf(LogNodes, round.start)
    /\ \A i \in 1..Len(round.log) : round.log[i].t = round.t /\ round.log[i].d = 1
    /\ callbacks[round.e] = SelectSeq(round.start,
                                      LAMBDA n : n \in Range(callbacks[round.e]))
    /\ ~round.done =>
         From(callbacks[round.e], round.e, nextCallback[round.e])
           = SelectSeq(callbacks[round.e], LAMBDA n : n \notin Range(LogNodes))
    /\ round.done => Range(callbacks[round.e]) \subseteq Range(LogNodes)

\* of three callbacks the first was called and removed itself and the
\* second, and the third was called
C3_Witness ==
  /\ RemovesOnly /\ round.done
  /\ Len(round.start) = 3
  /\ LogNodes = <<round.start[1], round.start[3]>>
  /\ callbacks[round.e] = <<round.start[3]>>

\* a dispatch in which the callbacks did nothing to the list but add and remove
AddsAndRemoves == round.on /\ round.ops \subseteq {"add", "remove"}

\* C4: in a non-nested notify whose callbacks add (and remove), nothing
\* undefined happens, no callback is called twice, the callbacks of the
\* starting list are called in their original order, and when the notify is
\* over every callback of the starting list that is still in the list was
\* called.
C4_AddDuringNotify ==
  AddsAndRemoves =>
    /\ ~ub
    /\ CursorValid(round.e)
    /\ NoDup(LogNodes)
    /\ Range(LogNodes) \subseteq Nodes
    /\ SelectSeq(LogNodes, LAMBDA n : n \in Range(round.start))
         = SelectSeq(round.start, LAMBDA n : n \in Range(LogNodes))
    /\ round.done =>
         Range(round.start) \cap Range(callbacks[round.e]) \subseteq Range(LogNodes)

\* callbacks added one element at the front and one at the back; the one at
\* the back was called in the same round after the two of the starting list
C4_Witness ==
  /\ AddsAndRemoves /\ round.done /\ round.ops = {"add"}
  /\ Len(round.start) = 2 /\ Len(round.log) = 3
  /\ Len(callbacks[round.e]) = 3
  /\ round.log[3].n \notin Range(round.start)

\* C5: a notify of a disabled event calls nothing and changes nothing (list,
\* callbacks, flag, cursor, pending activations); setEnabled changes the
\* flag of its event and nothing else; and a notify of an enabled event
\* whose callbacks leave it alone calls every element of the list, in the
\* order of the list, so as before the event was disabled.
C5_DisabledNotifyNoOp ==
  [][ /\ (last'.op = "notify" /\ ~enabled[last'.e]) =>
           /\ UNCHANGED <<callbacks, fn, enabled, nextCallback, nalloc, hv,
                          owner, stack, ub>>
           /\ round'.log = (IF stack = <<>> THEN <<>> ELSE round.log)
           /\ last'.it = End(last'.e)
      /\ last'.op = "setEnabled" =>
           /\ enabled' = [enabled EXCEPT ![last'.e] = last'.ok]
           /\ UNCHANGED <<callbacks, fn, nextCallback, nalloc, hv, owner,
                          stack, ub>>
      /\ (last'.op \in {"notify", "return"} /\ round'.on /\ round'.done
            /\ round'.ops = {}) =>
           [i \in 1..Len(round'.log) |-> round'.log[i].n] = callbacks'[round'.e]
    ]_vars

\* notify was called on a disabled event with two callbacks
C5_Witness ==
  /\ last.op = "notify" /\ ~enabled[last.e] /\ ~last.ok
  /\ Len(callbacks[last.e]) = 2
  /\ stack = <<>>

\* C6, as claimed: remove on a handle of a live element erases that element
\* alone, keeps the others in their order and sets the handle to end();
\* remove on end() or on a handle whose element was already removed is a
\* no-op.
C6_RemoveAsClaimed ==
  [][ last'.op = "remove" =>
        IF last'.live
        THEN /\ callbacks' = [callbacks EXCEPT ![last'.e] = Erase(@, last'.it)]
             /\ \E h \in Handles :
                  /\ hv[h] = [ev |-> last'.e, it |-> last'.it]
                  /\ hv' = [hv EXCEPT ![h].it = End(last'.e)]
             /\ ~ub'
        ELSE /\ callbacks' = callbacks
             /\ ~ub'
    ]_vars

\* C7: replace on a handle of a live element returns true, stores the
\* callback in that element and changes nothing else (the list and the
\* position of the element included); and add, and remove of another
\* element, leave every element of the list in the list, with its callback,
\* in the same order relative to the others.
C7_ReplaceLive ==
  [][ /\ (last'.op = "replace" /\ last'.live) =>
           /\ last'.ok
           /\ last'.it \in Range(callbacks[last'.e])
           /\ fn' = [fn EXCEPT ![last'.it] = last'.x]
           /\ UNCHANGED <<callbacks, enabled, nextCallback, nalloc, hv, ub>>
      /\ (\/ last'.op = "add"
          \/ last'.op = "remove" /\ (last'.live \/ last'.it = End(last'.e))) =>
           \A e \in Events :
             LET kept == SelectSeq(callbacks[e],
                                   LAMBDA n : ~(last'.op = "remove" /\ n = last'.it))
             IN /\ SelectSeq(callbacks'[e], LAMBDA n : n \in Range(callbacks[e])) = kept
                /\ \A n \in Range(kept) : fn'[n] = fn[n]
    ]_vars

\* replace has put cbB in the second of three elements, which held cbA
C7_Witness ==
  /\ last.op = "replace" /\ last.live /\ last.ok
  /\ Len(callbacks[last.e]) = 3
  /\ callbacks[last.e][2] = last.it
  /\ last.x = "cbB" /\ fn[last.it] = "cbB"
  /\ \A n \in Range(callbacks[last.e]) \ {last.it} : fn[n] = "cbA"

\* C8, as claimed: replace on end() or on a handle whose element was removed
\* returns false and leaves the list as it was.
C8_ReplaceStaleAsClaimed ==
  [][ (last'.op = "replace" /\ ~last'.live) =>
        /\ ~last'.ok
        /\ callbacks' = callbacks
    ]_vars

----------------------------------------------------------------------------
\* Properties of ScopedCallbackID.

\* C9, as claimed: o.replace(e2, c, first) removes o's element from the
\* event o was on and adds c to e2: afterwards the list of e2 has the new
\* element at the end asked for; the list of the old event is what it was
\* less o's element, its flag and cursor are what they were; and o is on e2,
\* so that its destructor removes from e2.
C9_OwnerReplaceAsClaimed ==
  [][ (last'.op = "ownerReplace"
         /\ (last'.live \/ last'.it = End(owner[last'.x].ev))) =>
        LET o == last'.x
            e2 == last'.e
            e1 == owner[o].ev
            n == owner'[o].cb
            base == IF e2 = e1 THEN Erase(callbacks[e1], last'.it)
                    ELSE callbacks[e2]
        IN /\ callbacks'[e2] = (IF last'.ok THEN <<n>> \o base ELSE base \o <<n>>)
           /\ e2 # e1 =>
                /\ callbacks'[e1] = Erase(callbacks[e1], last'.it)
                /\ enabled'[e1] = enabled[e1]
                /\ nextCallback'[e1] = nextCallback[e1]
           /\ owner'[o].ev = e2
    ]_vars

Alive == {o \in Owners : owner[o].st = "alive"}

\* the elements the live ScopedCallbackIDs hold
Held == {owner[o].cb : o \in Alive} \cap Nodes

OwnersSound ==
  /\ ~ub
  /\ \A o \in Alive :
       owner[o].cb = End(owner[o].ev) \/ owner[o].cb \in Range(callbacks[owner[o].ev])
  /\ \A o1, o2 \in Alive : (o1 # o2 /\ owner[o1].cb \in Nodes) => owner[o1].cb # owner[o2].cb
  /\ tags.owned = Held

\* C10: over constructions, moves and destructions of ScopedCallbackIDs,
\* nothing undefined happens; every live one holds end() or an element of
\* its event's list; no two hold the same element; the elements added by
\* ScopedCallbackIDs that are still in a list are exactly the ones held (so
\* one is removed when, and only when, its holder is destroyed); a move
\* gives the destination the source's event and handle, leaves end() in the
\* source and the lists alone; the destructor of one holding end() changes
\* no list, and the destructor of one holding an element erases that
\* element and no other.
C10_OwnerRemovesOnce ==
  [][ /\ OwnersSound'
      /\ last'.op = "ownerMove" =>
           /\ owner'[last'.x] = [st |-> "alive", ev |-> last'.e, cb |-> last'.it]
           /\ \E src \in Alive :
                /\ owner[src].cb = last'.it /\ owner[src].ev = last'.e
                /\ owner'[src] = [owner[src] EXCEPT !.cb = End(last'.e)]
           /\ UNCHANGED <<callbacks, fn, enabled, nextCallback>>
      /\ last'.op = "ownerDestroy" =>
           /\ owner'[last'.x].st = "dead"
           /\ callbacks' = [callbacks EXCEPT ![last'.e] = Erase(@, last'.it)]
           /\ last'.it \in Nodes =>
                (last'.live /\ last'.it \in tags.owned /\ last'.it \notin tags'.owned)
    ]_vars

\* owner 1 was constructed, moved to owner 2 and destroyed, and then the
\* destructor of owner 2 removed the element
C10_Witness ==
  /\ last.op = "ownerDestroy" /\ last.x = 2 /\ last.live
  /\ owner[1].st = "dead" /\ owner[2].st = "dead"
  /\ nalloc = 1 /\ callbacks[last.e] = <<>>

----------------------------------------------------------------------------
\* Properties of ScopedCallbacksHolder.

\* the elements the holder's ScopedCallbackIDs hold
HolderNodes == {owner[holder.ids[i]].cb : i \in 1..Len(holder.ids)}

\* C11: the elements added through the holder that are in a list are, at
\* all times, exactly the ones its ScopedCallbackIDs hold; removeAllCallbacks
\* and the destructor of the holder erase all of them, whatever their events,
\* and leave the other elements in their lists and in their order; either
\* one, on a holder that holds nothing, changes no event; and a callback is
\* only ever called while its element is in the list, so that none of the
\* removed ones is called by a later notify.
C11_HolderTeardown ==
  [][ /\ ~ub'
      /\ tags'.owned = {owner'[holder'.ids[i]].cb : i \in 1..Len(holder'.ids)}
      /\ last'.op \in {"removeAll", "holderDestroy"} =>
           /\ last'.x = Cardinality(tags.owned)
           /\ \A e \in Events :
                callbacks'[e] = SelectSeq(callbacks[e], LAMBDA n : n \notin tags.owned)
           /\ \A n \in Nodes \ tags.owned : fn'[n] = fn[n]
           /\ tags'.owned = {}
           /\ holder.ids = <<>> => UNCHANGED <<callbacks, fn, enabled, nextCallback>>
      /\ Len(round'.log) > Len(round.log) =>
           /\ round'.log[Len(round'.log)].n \in Range(callbacks'[round'.e])
           /\ round'.log[Len(round'.log)].n \notin tags.owned \ tags'.owned
      /\ (round'.on /\ round'.done /\ round'.ops = {}) =>
           [i \in 1..Len(round'.log) |-> round'.log[i].n] = callbacks'[round'.e]
    ]_vars

\* two subscriptions were added through the holder, one on each event, and
\* one beside it; the holder was emptied and then destroyed; the notify that
\* followed called the one left
C11_Witness ==
  /\ holder.st = "dead" /\ last.op = "return" /\ round.done
  /\ owner[1].st = "dead" /\ owner[2].st = "dead" /\ owner[1].ev # owner[2].ev
  /\ nalloc = 3 /\ Len(round.log) = 1
  /\ callbacks[round.e] = <<round.log[1].n>>

----------------------------------------------------------------------------
\* Properties of Value.

\* the steps of kind k in the history of the destructor
TrailOf(tr, k) == {i \in 1..Len(tr) : tr[i].k = k}

\* C12: the destructor of a Value does nothing undefined; it destroys _e
\* once, and every remove it performs comes before that; the elements
\* removed are exactly the ones the Value's ScopedCallbackIDs held, each of
\* them in the list of its event when the destructor started; afterwards
\* the other event has lost these elements only.
C12_ValueTeardown ==
  [][ last'.op = "valueDestroy" =>
        /\ ~ub'
        /\ value'.st = "dead" /\ holder'.st = "dead"
        /\ Cardinality(TrailOf(note'.trail, "~Event")) = 1
        /\ \A i \in TrailOf(note'.trail, "remove"), j \in TrailOf(note'.trail, "~Event") :
             i < j
        /\ {note'.trail[i].n : i \in TrailOf(note'.trail, "remove")} = HolderNodes
        /\ Cardinality(TrailOf(note'.trail, "remove")) = Len(holder.ids)
        /\ \A i \in TrailOf(note'.trail, "remove") :
             note'.trail[i].n \in Range(callbacks[note'.trail[i].e])
        /\ \A e \in Events \ {ValueEvent} :
             callbacks'[e] = SelectSeq(callbacks[e], LAMBDA n : n \notin HolderNodes)
        /\ \A o \in Owners : owner'[o].st # "alive"
    ]_vars

\* a Value with a listener, a subscription of its holder to the other event
\* and a plain subscription to its event was destroyed
C12_Witness ==
  /\ value.st = "dead" /\ last.op = "valueDestroy"
  /\ Len(note.trail) = 3 /\ nalloc = 3
  /\ note.trail[1].e # note.trail[2].e
  /\ note.trail[3].k = "~Event"

\* C13: set(v) stores v and, the event being enabled, starts a dispatch of
\* the listeners with v, also when v is the value already stored; when the
\* listeners leave the event alone the dispatch calls each of them once with
\* v, in the order of the list; get returns the stored value, which is the
\* last one set, and changes nothing.
C13_SetDispatches ==
  [][ /\ (last'.op = "notify" /\ note'.via = "set") =>
           /\ value'.t = note'.v
           /\ last'.ok = enabled[ValueEvent]
           /\ enabled[ValueEvent] =>
                /\ round'.on /\ round'.t = note'.v
                /\ round'.start = callbacks[ValueEvent]
                /\ round'.log = IF callbacks[ValueEvent] = <<>> THEN <<>>
                                ELSE <<Call(1, Head(callbacks[ValueEvent]), note'.v)>>
      /\ (round'.on /\ round'.done /\ round'.ops = {} /\ note'.via = "set") =>
           /\ round'.log = CallsOf(round'.start, note'.v)
           /\ value'.t = note'.v
      /\ last'.op = "get" =>
           /\ last'.x = value.t
           /\ note.via = "set" => last'.x = note.v
           /\ UNCHANGED <<callbacks, fn, enabled, nextCallback, nalloc, hv,
                          owner, stack, ub, tags, holder, value>>
    ]_vars

\* set(8) on a Value that already held 8 has called both listeners with 8
C13_Witness ==
  /\ note.via = "set" /\ note.same /\ note.v = 8 /\ value.t = 8
  /\ round.on /\ round.done /\ round.ops = {}
  /\ Len(round.start) = 2
  /\ round.log = CallsOf(round.start, 8)

----------------------------------------------------------------------------
\* Properties of ScopedDisable.

\* C14: while a guard of an event is alive and setEnabled was not called
\* on the event since the outermost one was constructed, the event is
\* disabled and the outermost guard remembers the flag as it was before;
\* and when the last of the nested guards of the event is destroyed, the
\* flag is again what it was before the outermost one was constructed.
C14_GuardNesting ==
  [][ \A e \in Events :
        note'.clean[e] =>
          /\ GuardsOn(e)' # <<>> =>
               /\ ~enabled'[e]
               /\ Head(GuardsOn(e)').prev = note'.base[e]
          /\ (GuardsOn(e) # <<>> /\ GuardsOn(e)' = <<>>) =>
               enabled'[e] = note'.base[e]
    ]_vars

\* two guards were nested on the enabled event 1 and both destroyed
C14_Witness ==
  /\ guards = <<>> /\ note.clean[1] /\ note.deep[1] = 2
  /\ note.base[1] /\ enabled[1]
  /\ last.op = "setEnabled" /\ last.e = 1

\* C19: a dispatch that has started goes on when its event is disabled
\* under it, by setEnabled(false) or by a guard: with callbacks that leave
\* the list alone, the callbacks called and the ones still to call are at
\* all times the list the dispatch started with, and all of it was called
\* when the dispatch is over; while a notify of the disabled event made
\* afterwards calls nothing.
C19_FlagReadOnce ==
  /\ (round.on /\ round.ops = {} /\ ~enabled[round.e]) =>
       /\ ~ub
       /\ LogNodes \o (IF round.done THEN <<>>
                       ELSE From(callbacks[round.e], round.e, nextCallback[round.e]))
            = round.start
       /\ \A i \in 1..Len(round.log) : round.log[i].t = round.t
       /\ ~round.done => stack # <<>>
  /\ (last.op = "notify" /\ ~last.ok) =>
       /\ ~enabled[last.e]
       /\ ~round.on /\ stack = <<>>

\* the first of three callbacks constructed a guard on the event, and the
\* other two were called all the same
C19_Witness ==
  /\ round.on /\ round.done /\ round.ops = {}
  /\ ~enabled[round.e] /\ GuardsOn(round.e) # <<>> /\ note.clean[round.e]
  /\ Len(round.start) = 3 /\ LogNodes = round.start

----------------------------------------------------------------------------
\* Properties of Notifier and ScopedNotifier.

\* the first call of a dispatch of list s with argument t
FirstCall(s, t) == IF s = <<>> THEN <<>> ELSE <<Call(1, Head(s), t)>>

C16_ScopedNotifierOnce ==
  [][ /\ (scoped.st = "none" /\ scoped'.st # "none") =>
           /\ scoped' = [st |-> "alive", e |-> notifier.e, t |-> note.made]
           /\ UNCHANGED <<callbacks, fn, enabled, nextCallback, nalloc, stack, ub>>
           /\ Len(round'.log) <= Len(round.log)
           /\ last'.op # "notify"
      /\ (scoped.st = "alive" /\ scoped'.st = "alive") =>
           /\ scoped' = scoped
           /\ note'.fired = 0
      /\ (scoped.st = "alive" /\ scoped'.st # "alive") =>
           /\ scoped'.st = "dead"
           /\ last'.op = "notify" /\ last'.e = scoped.e
           /\ last'.ok = enabled[scoped.e]
           /\ note'.fired = 1
           /\ UNCHANGED <<callbacks, fn, enabled, nalloc, ub>>
           /\ IF enabled[scoped.e] /\ callbacks[scoped.e] # <<>>
              THEN /\ stack' = Append(stack, [e |-> scoped.e,
                                              c |-> Head(callbacks[scoped.e]),
                                              t |-> note.made])
                   /\ round'.log[Len(round'.log)]
                        = Call(Len(stack'), Head(callbacks[scoped.e]), note.made)
              ELSE stack' = stack
      /\ scoped.st = "dead" => (scoped' = scoped /\ note'.fired = 1)
    ]_vars

\* a ScopedNotifier made from a notifier of 7 went out of scope after the
\* variable was set to 8, and its dispatch called both callbacks with 7
C16_Witness ==
  /\ scoped.st = "dead" /\ note.via = "scoped" /\ note.fired = 1
  /\ note.made = 7 /\ arg = 8
  /\ round.on /\ round.done /\ round.ops = {}
  /\ Len(round.start) = 2
  /\ round.log = CallsOf(round.start, 7)

----------------------------------------------------------------------------
\* Properties of notify called from a callback.

\* the nodes called at depth 1, and the nodes called deeper
Outer == SelectSeq(round.log, LAMBDA x : x.d = 1)
Inner == SelectSeq(round.log, LAMBDA x : x.d > 1)

\* C17: when a notify called by a callback of the same event returns, the
\* cursor of the event is end(); the notify that was waiting then calls no
\* further callback (a notify never makes a call right after a deeper one
\* has made calls, and its calls at depth 1 all come before the deeper
\* ones); with callbacks that leave the list alone, the outer notify has
\* called the list up to the callback that called notify and no more, and
\* a nested notify has called the whole list, so the elements after that
\* callback were called by nested rounds only.
C17_NestedNotifyEndsOuter ==
  [][ /\ (last'.op = "return" /\ Len(stack') < Len(stack) /\ Len(stack) > 1) =>
           nextCallback'[last'.e] = End(last'.e)
      /\ (last'.op = "notify" /\ stack # <<>> /\ Len(stack') = Len(stack)) =>
           nextCallback'[last'.e] = End(last'.e)
      /\ (last'.op = "return" /\ Len(round'.log) > Len(round.log)) =>
           round.log[Len(round.log)].d = round'.log[Len(round'.log)].d
      /\ \A i, j \in 1..Len(round'.log) :
           (i < j /\ round'.log[i].d > 1) => round'.log[j].d > 1
      /\ (round'.on /\ round'.done /\ round'.ops = {"notify"}) =>
           /\ ~ub'
           /\ Outer' # <<>>
           /\ [i \in 1..Len(Outer') |-> Outer'[i].n]
                = SubSeq(round'.start, 1, Len(Outer'))
           /\ Inner' # <<>> =>
                Range(round'.start) \subseteq {Inner'[i].n : i \in 1..Len(Inner')}
    ]_vars

\* the first of two callbacks called notify again: the nested notify called
\* both, and the outer one, when it got control back, called no other
C17_Witness ==
  /\ round.on /\ round.done /\ round.ops = {"notify"}
  /\ Len(round.start) = 2 /\ Len(round.log) = 3
  /\ round.log[1] = Call(1, round.start[1], round.t)
  /\ round.log[2].d = 2 /\ round.log[3].d = 2
  /\ round.log[3].n = round.start[2]

----------------------------------------------------------------------------
\* Properties of add called from a callback.

\* the elements added by callbacks of the dispatch that are in the list
BornHere == note.born \cap Range(callbacks[round.e])

\* C18, as claimed: in a non-nested notify, of the elements added by its
\* callbacks (and in the list at its end), one added at the front was not
\* called, and one added at the back was called if and only if the
\* callback that added it was not the last element of the list when that
\* callback was called.
C18_AddedAsClaimed ==
  (AddsAndRemoves /\ round.done) =>
    \A n \in BornHere :
      IF n \in tags.front THEN n \notin Range(LogNodes)
      ELSE (n \in Range(LogNodes)) <=> (n \notin note.bornLast)

\* C18, amended: in a non-nested notify, an element added at the front by
\* a callback is not called; one added at the back (and in the list at the
\* end of the notify) was called if and only if the cursor was not end()
\* when it was added, which, as long as no callback has removed anything,
\* is to say that the callback that added it was not the last element when
\* it was called; and a later notify whose callbacks leave the list alone
\* calls every element added by the callbacks of the notify before.
C18_AddedDuringNotify ==
  /\ AddsAndRemoves =>
       /\ \A n \in note.born \cap tags.front : n \notin Range(LogNodes)
       /\ round.ops \subseteq {"add"} => note.bornLast = note.bornEnd
       /\ round.done =>
            \A n \in BornHere \ tags.front :
              (n \in Range(LogNodes)) <=> (n \notin note.bornEnd)
  /\ (round.on /\ round.done /\ round.ops = {}) =>
       note.prev \cap Range(callbacks[round.e]) \subseteq Range(LogNodes)

\* the first of two callbacks removed the second and then added an element
\* at the back: the notify ended without calling the new element
C18_Witness ==
  /\ round.on /\ round.done /\ round.ops = {"add", "remove"}
  /\ Len(round.start) = 2 /\ Len(round.log) = 1
  /\ callbacks[round.e] = <<round.start[1], 3>>
  /\ note.born = {3} /\ note.bornEnd = {3} /\ note.bornLast = {}

----------------------------------------------------------------------------
\* Properties of a callback that throws.

\* C20: a throw ends the notify that called the callback at once: no
\* further callback is called, and the list, the callbacks, the flag and
\* the cursor are left as they are; when the callbacks did nothing else,
\* the callbacks called are the list up to the one that threw; the cursor
\* left behind is end() or an element of the list, whatever is removed
\* afterwards, so that nothing undefined happens; and a later notify whose
\* callbacks leave the event alone calls every element of the list once,
\* in the order of the list, wherever the cursor was left.
C20_ThrowLeavesEventUsable ==
  [][ /\ ~ub'
      /\ CursorValid(1)'
      /\ last'.op = "throw" =>
           /\ stack' = SubSeq(stack, 1, Len(stack) - 1)
           /\ round'.log = round.log
           /\ round'.done
           /\ last'.it = round.log[Len(round.log)].n
           /\ UNCHANGED <<callbacks, fn, enabled, nextCallback, nalloc, hv>>
      /\ (round'.on /\ round'.done /\ round'.ops = {"throw"}) =>
           /\ callbacks'[round'.e] = round'.start
           /\ [i \in 1..Len(round'.log) |-> round'.log[i].n]
                = SubSeq(round'.start, 1, Len(round'.log))
      /\ (round'.on /\ round'.done /\ round'.ops = {}) =>
           /\ callbacks'[round'.e] = round'.start
           /\ round'.log = CallsOf(round'.start, round'.t)
    ]_vars

\* the first of three callbacks threw, the second (on which the cursor was
\* left) was removed, and the next notify called the two that were left
C20_Witness ==
  /\ note.stale /\ round.on /\ round.done /\ round.ops = {}
  /\ nalloc = 3 /\ callbacks[1] = <<1, 3>>
  /\ round.log = CallsOf(<<1, 3>>, round.t)

====
